---- MODULE Spec2Model ----
(***************************************************************************)
(* A model of alert_new_targets.py: the bounty target monitor.  Each run   *)
(* fetches one JSON document per platform, compares it with the platform's *)
(* stored snapshot, and reports the targets that were added or removed.    *)
(*                                                                         *)
(* Strings are sequences of code points (Python compares and strips them   *)
(* by code point).  JSON values are records tagged by the field t.         *)
(***************************************************************************)
EXTENDS Integers, Sequences, FiniteSets, TLC

VARIABLES
    data_obj,       \* extract_targets_and_rewards: the document it is given
    extracted,      \* extract_targets_and_rewards: what the call returned
    snapshots,      \* the snapshot file of each platform in OUTPUT_DIR
    report_dir,     \* the names of the report files in OUTPUT_DIR
    run,            \* the number of the run of main() in progress
    pc,             \* main(): the statement the run is at
    platform,       \* main(): the place in PLATFORM_FILES of the loop
    current_obj,    \* main(): the document fetched for the platform
    prev_obj,       \* main(): the platform's previous snapshot, or None
    curr_targets, curr_rewarded, prev_targets, prev_rewarded,
    added, removed, \* main(): the sorted differences
    any_changes, total_new, total_removed,
    new_report_lines, removed_report_lines,
    exit_code,      \* what main() returned; -1 while it runs
    run_error,      \* the exception that reached line 293, "none" without one
    written,        \* the report files this run wrote, each with its lines
    stored_before,  \* history: snapshots as the run found them
    fetched,        \* history: what this run's fetch of each platform gave
    slack_webhook,  \* main(): the webhook of the settings file, "" without one
    log,            \* the lines this run gave to the logger, in order
    slack           \* the messages this run posted to the webhook, in order

exVars == <<data_obj, extracted>>
storeVars == <<snapshots, report_dir, run, slack_webhook>>
localVars == <<current_obj, prev_obj, curr_targets, curr_rewarded,
               prev_targets, prev_rewarded, added, removed>>
totalVars == <<any_changes, total_new, total_removed,
               new_report_lines, removed_report_lines>>
endVars == <<exit_code, run_error, written>>
historyVars == <<stored_before, fetched>>
outVars == <<log, slack>>
mainVars == <<storeVars, pc, platform, localVars, totalVars, endVars, historyVars,
              outVars>>
vars == <<exVars, mainVars>>

(***************************************************************************)
(* Bounds of the model.                                                    *)
(***************************************************************************)
\* Programs plus assets of a document given to the extraction.
MaxRecords == 3
\* Runs of main(), one after the other.
MaxRuns == 2
\* Target strings the two sides of a diff are drawn from.
MaxTargets == 4
\* Added targets of the platform whose block of lines 235-270 is run.
MaxAdded == 52

(***************************************************************************)
(* JSON values, as json.loads builds them.                                 *)
(***************************************************************************)
JNull == [t |-> "null"]
JBool(b) == [t |-> "bool", b |-> b]
JNum(n) == [t |-> "num", n |-> n]
JStr(s) == [t |-> "str", s |-> s]
JList(xs) == [t |-> "list", items |-> xs]
\* A dict is a function from the keys that are present to their values.
JDict(kv) == [t |-> "dict", kv |-> kv]

\* isinstance(v, list), isinstance(v, dict), isinstance(v, str)
IsList(v) == v.t = "list"
IsDict(v) == v.t = "dict"
IsStr(v) == v.t = "str"

\* dict.get(key, default)
Get(d, key, default) == IF key \in DOMAIN d.kv THEN d.kv[key] ELSE default

\* bool(v): Python's truth value of a JSON value
Truthy(v) ==
    CASE v.t = "null" -> FALSE
      [] v.t = "bool" -> v.b
      [] v.t = "num" -> v.n # 0
      [] v.t = "str" -> Len(v.s) > 0
      [] v.t = "list" -> Len(v.items) > 0
      [] v.t = "dict" -> DOMAIN v.kv # {}

(***************************************************************************)
(* Strings.                                                                *)
(***************************************************************************)
\* The code points str.isspace() accepts, up to U+00A0.
Whitespace == {9, 10, 11, 12, 13, 28, 29, 30, 31, 32, 133, 160}

\* str.strip()
Strip(s) ==
    LET keep == {i \in 1..Len(s) : s[i] \notin Whitespace}
    IN  IF keep = {} THEN <<>>
        ELSE LET lo == CHOOSE i \in keep : \A j \in keep : i <= j
                 hi == CHOOSE i \in keep : \A j \in keep : j <= i
             IN  SubSeq(s, lo, hi)

\* str.lower(), on the ASCII letters
Lower(s) == [i \in 1..Len(s) |-> IF s[i] \in 65..90 THEN s[i] + 32 ELSE s[i]]

\* The literals of the source, as code points.
StrUnknown == <<85, 110, 107, 110, 111, 119, 110>>     \* "Unknown"
StrOther == <<111, 116, 104, 101, 114>>                \* "other"
StrNone == <<78, 111, 110, 101>>                       \* "None"
StrTrue == <<84, 114, 117, 101>>                       \* "True"
StrFalse == <<70, 97, 108, 115, 101>>                  \* "False"

RECURSIVE Decimal(_)
\* str(n) of a natural number
Decimal(n) == IF n < 10 THEN <<48 + n>> ELSE Decimal(n \div 10) \o <<48 + (n % 10)>>

\* format(v) inside an f-string, for the values a name can take here
Format(v) ==
    CASE v.t = "str" -> v.s
      [] v.t = "null" -> StrNone
      [] v.t = "bool" -> IF v.b THEN StrTrue ELSE StrFalse
      [] v.t = "num" -> Decimal(v.n)

\* a < b as Python orders strings: by code point, a proper prefix first
StrLess(a, b) ==
    \/ /\ Len(a) < Len(b)
       /\ \A i \in 1..Len(a) : a[i] = b[i]
    \/ \E k \in 1..Len(a) :
          /\ k <= Len(b)
          /\ \A i \in 1..(k - 1) : a[i] = b[i]
          /\ a[k] < b[k]

(***************************************************************************)
(* extract_targets_and_rewards (lines 92-146).  The state of one call is   *)
(* the record st: the two sets, the exception in flight (exc, "none" when  *)
(* there is none) and calls, the calls of mark() in order, each with the   *)
(* place in the document of the asset it was made for.                     *)
(***************************************************************************)
NoDict == [k \in {} |-> JNull]

ExtractStart ==
    [all_targets |-> {}, rewarded |-> {}, exc |-> "none", warning |-> "none",
     calls |-> <<>>]

\* A mark() whose rewarded set follows the last asset of a target: a target
\* marked without reward is taken out of it.
mark_last(st, target, has_reward) ==
    IF Len(target) = 0 \/ Len(Strip(target)) = 0 THEN st
    ELSE [st EXCEPT !.all_targets = @ \cup {Strip(target)},
                    !.rewarded = IF has_reward THEN @ \cup {Strip(target)}
                                 ELSE @ \ {Strip(target)}]

\* mark(target, has_reward), lines 100-106
mark(st, target, has_reward) ==
    IF Len(target) = 0 \/ Len(Strip(target)) = 0 THEN st
    ELSE [st EXCEPT !.all_targets = @ \cup {Strip(target)},
                    !.rewarded = IF has_reward THEN @ \cup {Strip(target)} ELSE @]

\* A classification that forgets the program's flag.
HasRewardAssetOnly(target_eligible, program_offers_bounty) ==
    Truthy(target_eligible)

\* line 134: target_eligible or (not target_eligible and program_offers_bounty)
HasReward(target_eligible, program_offers_bounty) ==
    Truthy(target_eligible) \/ (~Truthy(target_eligible) /\ program_offers_bounty)

\* The format with the name and the type in each other's place.
DisplayTargetSwapped(program_name, asset_type, target) ==
    asset_type \o <<32, 40>> \o program_name \o <<41, 32, 45, 32>> \o target

\* line 138: f"{program_name} ({asset_type}) - {target}"
DisplayTarget(program_name, asset_type, target) ==
    program_name \o <<32, 40>> \o asset_type \o <<41, 32, 45, 32>> \o target

\* line 117: program.get("name") or program.get("handle", "Unknown")
ProgramName(program) ==
    IF Truthy(Get(program, "name", JNull))
    THEN Get(program, "name", JNull)
    ELSE Get(program, "handle", JStr(StrUnknown))

\* lines 120-121: the value the inner loop iterates
InScope(program) ==
    LET targets_data == Get(program, "targets", JDict(NoDict))
    IN  IF IsDict(targets_data)
        THEN Get(targets_data, "in_scope", JList(<<>>))
        ELSE JList(<<>>)

\* "for asset in in_scope": a list gives its items, a string its characters,
\* and None, a number or a boolean raise TypeError.  (A dict would give its
\* keys; no document of the model holds one there.)
Iterate(v) ==
    CASE v.t = "list" -> [exc |-> "none", items |-> v.items]
      [] v.t = "str" -> [exc |-> "none",
                         items |-> [i \in 1..Len(v.s) |-> JStr(<<v.s[i]>>)]]
      [] v.t \in {"null", "num", "bool"} -> [exc |-> "TypeError", items |-> <<>>]

\* lines 124-140: the body of the inner loop for the asset at place <<i, j>>
ProcessAsset(st, i, j, program, asset) ==
    IF ~IsDict(asset) THEN st
    ELSE
      LET ident == Get(asset, "asset_identifier", JStr(<<>>))
      IN  IF ~IsStr(ident) THEN [st EXCEPT !.exc = "AttributeError"]
          ELSE
            LET target == Strip(ident.s)
                target_eligible == Get(asset, "eligible_for_bounty", JBool(FALSE))
                program_offers_bounty ==
                    Truthy(Get(program, "offers_bounties", JBool(FALSE)))
                has_reward == HasReward(target_eligible, program_offers_bounty)
                type == Get(asset, "asset_type", JStr(StrOther))
            IN  IF Len(target) = 0 THEN st
                ELSE IF ~IsStr(type) THEN [st EXCEPT !.exc = "AttributeError"]
                ELSE
                  LET display_target ==
                          DisplayTarget(Format(ProgramName(program)),
                                        Lower(type.s), target)
                      marked == mark(st, display_target, has_reward)
                  IN  [marked EXCEPT !.calls =
                          Append(@, [program |-> i, asset |-> j,
                                     target |-> display_target,
                                     has_reward |-> has_reward])]

RECURSIVE ProcessAssets(_, _, _, _, _)
\* line 123: the inner loop from item j on; an exception ends it
ProcessAssets(st, i, program, items, j) ==
    IF st.exc # "none" \/ j > Len(items) THEN st
    ELSE ProcessAssets(ProcessAsset(st, i, j, program, items[j]),
                       i, program, items, j + 1)

\* lines 112-140: the body of the outer loop for the program at place i
ProcessProgram(st, i, program) ==
    IF ~IsDict(program) THEN st
    ELSE
      LET it == Iterate(InScope(program))
      IN  IF it.exc # "none" THEN [st EXCEPT !.exc = it.exc]
          ELSE ProcessAssets(st, i, program, it.items, 1)

RECURSIVE ProcessPrograms(_, _, _)
\* line 111: the outer loop from program i on; an exception ends it
ProcessPrograms(st, programs, i) ==
    IF st.exc # "none" \/ i > Len(programs) THEN st
    ELSE ProcessPrograms(ProcessProgram(st, i, programs[i]), programs, i + 1)

\* line 109: data_obj if isinstance(data_obj, list) else []
Programs(obj) == IF IsList(obj) THEN obj.items ELSE <<>>

\* A call with no handler: the exception stays in flight.
ExceptNothing(st) == st

\* lines 142-144: except Exception: the exception becomes a printed warning
ExceptException(st) == [st EXCEPT !.warning = st.exc, !.exc = "none"]

\* The whole call: the try block, then the handler; the caller reads
\* all_targets and rewarded, and exc is what propagates to it.
extract_targets_and_rewards(obj) ==
    ExceptException(ProcessPrograms(ExtractStart, Programs(obj), 1))

(***************************************************************************)
(* The snapshot store (lines 77-89).  A snapshot file is absent, holds     *)
(* text json.load cannot parse, or holds the text json.dump wrote for a    *)
(* document, which json.load reads back as that document.                  *)
(***************************************************************************)
NoFile == [state |-> "absent"]
CorruptFile == [state |-> "corrupt"]
JsonFile(obj) == [state |-> "json", obj |-> obj]

\* A load that takes any file for a first run.
load_nothing(file) == JNull

\* load_previous_snapshot, lines 77-84; JNull is Python's None
load_previous_snapshot(file) ==
    IF file.state = "absent" THEN JNull
    ELSE IF file.state = "corrupt" THEN JNull
    ELSE file.obj

\* save_snapshot, lines 87-89: what the file holds after the call
save_snapshot(obj) == JsonFile(obj)

(***************************************************************************)
(* The diff (lines 232-233).                                               *)
(***************************************************************************)
RECURSIVE sorted(_)
\* sorted(S) of a set of strings: ascending, the least first
sorted(S) ==
    IF S = {} THEN <<>>
    ELSE LET least == CHOOSE x \in S : \A y \in S \ {x} : StrLess(x, y)
         IN  <<least>> \o sorted(S \ {least})

RECURSIVE Listed(_)
\* list(S): the elements of a set in some order, here the greatest first
Listed(S) ==
    IF S = {} THEN <<>>
    ELSE LET most == CHOOSE x \in S : \A y \in S \ {x} : StrLess(y, x)
         IN  <<most>> \o Listed(S \ {most})

\* A diff that forgets to sort.
AddedUnsorted(curr, prev) == Listed(curr \ prev)

\* line 232: sorted(curr_targets - prev_targets)
Added(curr, prev) == sorted(curr \ prev)

\* A diff that gives every previous target as removed.
RemovedAll(curr, prev) == sorted(prev)

\* line 233: sorted(prev_targets - curr_targets)
Removed(curr, prev) == sorted(prev \ curr)

(***************************************************************************)
(* The platforms and the report (lines 23-28, 149-170, 258-270).           *)
(***************************************************************************)
\* The keys of PLATFORM_FILES, in the order the loop takes them.
PLATFORM_FILES ==
    << <<72, 65, 67, 75, 69, 82, 79, 78, 69>>,       \* "HACKERONE"
       <<66, 85, 71, 67, 82, 79, 87, 68>>,           \* "BUGCROWD"
       <<73, 78, 84, 73, 71, 82, 73, 84, 73>>,       \* "INTIGRITI"
       <<89, 69, 83, 87, 69, 72, 65, 67, 75>> >>     \* "YESWEHACK"

PlatformIds == 1..Len(PLATFORM_FILES)

\* line 260: f"[{platform}] +{len(added)} new"
NewHeader(name, n) ==
    <<91>> \o name \o <<93, 32, 43>> \o Decimal(n) \o <<32, 110, 101, 119>>

\* line 268: f"[{platform}] -{len(removed)} removed"
RemovedHeader(name, n) ==
    <<91>> \o name \o <<93, 32, 45>> \o Decimal(n)
        \o <<32, 114, 101, 109, 111, 118, 101, 100>>

\* The added targets from the last to the first.
NewLinesReversed(targets) ==
    [k \in 1..Len(targets) |-> <<32, 43, 32>> \o targets[Len(targets) + 1 - k]]

\* lines 261-262: f" + {t}" for each added target
NewLines(targets) == [k \in 1..Len(targets) |-> <<32, 43, 32>> \o targets[k]]

\* lines 269-270: f" - {t}" for each removed target
RemovedLines(targets) == [k \in 1..Len(targets) |-> <<32, 45, 32>> \o targets[k]]

StrTxt == <<46, 116, 120, 116>>                              \* ".txt"
StrNewTargets ==                                             \* "_new_targets.txt"
    <<95, 110, 101, 119, 95, 116, 97, 114, 103, 101, 116, 115>> \o StrTxt
StrRemovedTargets ==                                         \* "_removed_targets.txt"
    <<95, 114, 101, 109, 111, 118, 101, 100, 95, 116, 97, 114, 103, 101, 116, 115>>
        \o StrTxt

\* f.endswith(suffix)
EndsWith(f, suffix) ==
    /\ Len(f) >= Len(suffix)
    /\ SubSeq(f, Len(f) - Len(suffix) + 1, Len(f)) = suffix

\* f[:4]
FirstFour(f) == SubSeq(f, 1, IF Len(f) < 4 THEN Len(f) ELSE 4)

\* The characters int() reads as decimal digits: "0" to "9", and the
\* Arabic-Indic digits U+0660 to U+0669 for the digits of the other scripts.
DecimalChars == (48..57) \cup (1632..1641)

\* The characters str.isdigit() accepts: the decimal digits, and the
\* superscript digits U+00B2, U+00B3, U+00B9 for those int() does not read.
DigitChars == DecimalChars \cup {178, 179, 185}

\* str.isdigit()
IsDigits(f) == Len(f) > 0 /\ \A k \in 1..Len(f) : f[k] \in DigitChars

\* int(f) returns for a string of digits; it raises ValueError otherwise
IsDecimal(f) == \A k \in 1..Len(f) : f[k] \in DecimalChars

RECURSIVE IntOf(_)
\* int(f) of a string of decimal digits
IntOf(f) ==
    IF Len(f) = 0 THEN 0
    ELSE 10 * IntOf(SubSeq(f, 1, Len(f) - 1))
            + (IF f[Len(f)] \in 48..57 THEN f[Len(f)] - 48 ELSE f[Len(f)] - 1632)

\* f"{n:04d}"
ZeroPad4(n) ==
    LET digits == Decimal(n)
    IN  IF Len(digits) >= 4 THEN digits
        ELSE [k \in 1..(4 - Len(digits)) |-> 48] \o digits

\* The number of the numbered files plus one, in place of the greatest
\* number plus one.
compute_counted_prefix(names) ==
    LET existing == { f \in names : EndsWith(f, StrTxt) /\ IsDigits(FirstFour(f)) }
    IN  IF existing = {} THEN <<48, 48, 48, 49>>
        ELSE ZeroPad4(Cardinality(existing) + 1)

\* compute_numbered_prefix, lines 149-161, of the names os.listdir gives
compute_numbered_prefix(names) ==
    LET existing == { f \in names : EndsWith(f, StrTxt) /\ IsDigits(FirstFour(f)) }
        numbers == { IntOf(FirstFour(f)) :
                        f \in { g \in existing : IsDecimal(FirstFour(g)) } } \cup {0}
        max_n == CHOOSE n \in numbers : \A m \in numbers : m <= n
    IN  IF existing = {} THEN <<48, 48, 48, 49>> ELSE ZeroPad4(max_n + 1)

\* write_report, lines 164-170: the two files it writes, each with its lines
write_report(prefix, new_lines, removed_lines) ==
    { [name |-> prefix \o StrNewTargets, lines |-> new_lines],
      [name |-> prefix \o StrRemovedTargets, lines |-> removed_lines] }

(***************************************************************************)
(* The log (lines 35-47).  A line is the f-string that made it, with the   *)
(* values it was given, numbers as str() writes them; the emoji of a       *)
(* message is written by its name.                                         *)
(***************************************************************************)
Log(fmt, args) == [fmt |-> fmt, args |-> args]

\* line 193
LogStarting == Log("Starting bounty target monitor...", <<>>)
\* line 219; the text of the exception is not kept
LogFailedToFetch(name) == Log("Failed to fetch {platform} data: {e}", <<name>>)
\* line 237
LogNewFound(name, n) ==
    Log("(dart) {platform}: {len(added)} new targets found", <<name, Decimal(n)>>)
\* line 244
LogWithRewards(n) ==
    Log("(money bag) {len(with_rewards)} targets WITH REWARDS:", <<Decimal(n)>>)
\* line 246
LogRewarded(t) == Log("   (fire) {t}", <<t>>)
\* line 248
LogWithoutRewards(n) ==
    Log("(cross mark) {len(without_rewards)} targets WITHOUT REWARDS:", <<Decimal(n)>>)
\* line 252
LogNotRewarded(t) == Log("   (memo) {t}", <<t>>)
\* line 255
LogMore(remaining) ==
    Log("   ... and {remaining} more non-rewarded targets", <<Decimal(remaining)>>)
\* line 266
LogRemoved(name, n) ==
    Log("(wastebasket) {platform}: {len(removed)} targets removed", <<name, Decimal(n)>>)
\* line 272
LogRepositoryUpdated == Log("Repository updated successfully", <<>>)
\* line 285
LogSlackSent == Log("Slack alert sent successfully", <<>>)
\* line 287
LogNoChanges == Log("(check mark) No changes detected across all platforms", <<>>)
\* line 289
LogCompleted == Log("Bounty target monitor completed", <<>>)
\* line 294; the text of the exception is not kept
LogRunFailed == Log("Run failed: {ex}", <<>>)

\* seq[:n]
Take(seq, n) == SubSeq(seq, 1, IF Len(seq) < n THEN Len(seq) ELSE n)

\* with_rewards[:50], line 245
RewardedLimit == 50
\* without_rewards[:50], line 249
SampleLimit == 50

\* lines 243-246
WithRewardsLog(with_rewards) ==
    IF with_rewards = <<>> THEN <<>>
    ELSE LET shown == Take(with_rewards, RewardedLimit)
         IN  <<LogWithRewards(Len(with_rewards))>>
                \o [k \in 1..Len(shown) |-> LogRewarded(shown[k])]

RECURSIVE SampleLoop(_, _, _)
\* lines 250-256: the loop over enumerate(sample), from idx on
SampleLoop(sample, without_rewards, idx) ==
    IF idx >= Len(sample) THEN <<>>
    ELSE IF idx < 2 \/ Len(sample) <= 3
         THEN <<LogNotRewarded(sample[idx + 1])>>
                 \o SampleLoop(sample, without_rewards, idx + 1)
    ELSE IF idx = 2 /\ Len(without_rewards) > Len(sample)
         THEN <<LogMore(Len(without_rewards) - Len(sample))>>
    ELSE SampleLoop(sample, without_rewards, idx + 1)

\* lines 247-256
WithoutRewardsLog(without_rewards) ==
    IF without_rewards = <<>> THEN <<>>
    ELSE <<LogWithoutRewards(Len(without_rewards))>>
            \o SampleLoop(Take(without_rewards, SampleLimit), without_rewards, 0)

\* lines 235-256: what the block of the added targets logs
AddedLog(name, targets, rewarded) ==
    IF targets = <<>> THEN <<>>
    ELSE LET with_rewards == SelectSeq(targets, LAMBDA t : t \in rewarded)
             without_rewards == SelectSeq(targets, LAMBDA t : t \notin rewarded)
         IN  <<LogNewFound(name, Len(targets))>>
                \o WithRewardsLog(with_rewards)
                \o WithoutRewardsLog(without_rewards)

\* lines 264-266: what the block of the removed targets logs
RemovedLog(name, targets) ==
    IF targets = <<>> THEN <<>> ELSE <<LogRemoved(name, Len(targets))>>

(***************************************************************************)
(* Slack (lines 173-187, 198-202, 279-285).                                *)
(***************************************************************************)
\* lines 198-202: no webhook in the settings file
NoWebhook == ""
\* lines 198-202: what the settings file gives
Webhooks == {NoWebhook, "https://hooks.slack.test/services/T"}

StrTotalNew ==                                 \* "(chart) Total new targets: "
    <<128202, 32, 84, 111, 116, 97, 108, 32, 110, 101, 119, 32, 116, 97,
      114, 103, 101, 116, 115, 58, 32>>
StrTotalRemoved ==                             \* " | (wastebasket) Total removed targets: "
    <<32, 124, 32, 128465, 65039, 32, 84, 111, 116, 97, 108, 32, 114, 101,
      109, 111, 118, 101, 100, 32, 116, 97, 114, 103, 101, 116, 115, 58,
      32>>

\* lines 280-282: the text of the summary
Summary(n_new, n_removed) ==
    StrTotalNew \o Decimal(n_new)
       \o (IF n_removed # 0 THEN StrTotalRemoved \o Decimal(n_removed) ELSE <<>>)

\* send_slack, lines 173-187: delivered is whether urlopen and resp.read()
\* return without raising
send_slack(webhook_url, delivered) ==
    IF webhook_url = NoWebhook THEN FALSE ELSE delivered

(***************************************************************************)
(* The feed (lines 70-74, 216-220).  A fetch returns a document or raises: *)
(* urlopen raises HTTPError, URLError or TimeoutError; resp.read() raises  *)
(* IncompleteRead when the connection ends inside the body; json.loads     *)
(* raises JSONDecodeError on a body that is no JSON.                       *)
(***************************************************************************)
FetchExceptions ==
    {"HTTPError", "URLError", "TimeoutError", "IncompleteRead", "JSONDecodeError"}

\* line 218: except (HTTPError, URLError, TimeoutError)
CaughtByFetch == {"HTTPError", "URLError", "TimeoutError"}

\* The exceptions of a fetch that a network fault raises.
NetworkExceptions == {"HTTPError", "URLError", "TimeoutError", "IncompleteRead"}

\* "A (d) - a", rewarded through the program's flag
AssetOld ==
    JDict([asset_identifier |-> JStr(<<97>>), asset_type |-> JStr(<<68>>),
           eligible_for_bounty |-> JBool(FALSE)])
\* "A (other) - b", rewarded through its own flag
AssetNew ==
    JDict([asset_identifier |-> JStr(<<98>>), eligible_for_bounty |-> JBool(TRUE)])
DocOne ==
    JList(<< JDict([name |-> JStr(<<65>>), offers_bounties |-> JBool(TRUE),
                    targets |-> JDict([in_scope |-> JList(<<AssetOld>>)])]) >>)
DocTwo ==
    JList(<< JDict([name |-> JStr(<<65>>), offers_bounties |-> JBool(TRUE),
                    targets |-> JDict([in_scope |-> JList(<<AssetOld, AssetNew>>)])]) >>)
\* The documents a fetch can return.
FeedDocuments == {DocOne, DocTwo}

(***************************************************************************)
(* The documents given to the extraction: every list of at most MaxRecords *)
(* records (programs plus assets) built from the values below, and some    *)
(* values that are no list.                                                *)
(***************************************************************************)
\* d with key k set to v
Put(d, k, v) == [x \in (DOMAIN d) \cup {k} |-> IF x = k THEN v ELSE d[x]]

NameA == JStr(<<65>>)               \* "A"
NameSpaceA == JStr(<<32, 65>>)      \* " A"
HandleH == JStr(<<104>>)            \* "h"
IdentA == JStr(<<32, 97>>)          \* " a"
IdentBlank == JStr(<<32>>)          \* " "
TypeD == JStr(<<68>>)               \* "D"

\* Assets with a usable identifier: every asset_type (absent, "D", null)
\* with every eligible_for_bounty (absent, true, false).
GoodIdentAssets ==
    { JDict(kv) : kv \in
        { [k \in ({"asset_identifier"} \cup ks) |->
              CASE k = "asset_identifier" -> IdentA
                [] k = "asset_type" -> ty
                [] k = "eligible_for_bounty" -> JBool(el)] :
          ks \in SUBSET {"asset_type", "eligible_for_bounty"},
          ty \in {TypeD, JNull}, el \in BOOLEAN } }

\* An entry that is no dict, and assets with no usable identifier.
OtherAssets ==
    { JNull,
      JDict(NoDict),
      JDict([asset_identifier |-> JNull]),
      JDict([asset_identifier |-> IdentBlank]) }

AssetValues == GoodIdentAssets \cup OtherAssets

\* The fields of a program other than its targets.
ProgramHeaders ==
    { [name |-> NameA],
      [name |-> NameA, offers_bounties |-> JBool(TRUE)],
      [name |-> NameA, offers_bounties |-> JBool(FALSE)],
      [name |-> NameA, handle |-> HandleH],
      [name |-> NameSpaceA, offers_bounties |-> JBool(TRUE)],
      [name |-> JStr(<<>>)],
      [handle |-> HandleH],
      NoDict }

\* Programs that hold no list of assets.
ProgramsWithoutList ==
    { JNull,
      JDict(NoDict),
      JDict([targets |-> JNull]),
      JDict([targets |-> JDict(NoDict)]),
      JDict([targets |-> JDict([in_scope |-> JNull])]),
      JDict([targets |-> JDict([in_scope |-> JStr(<<97>>)])]) }

\* Programs whose in_scope is a list, still empty.
ProgramsWithList ==
    { JDict(Put(h, "targets", JDict([in_scope |-> JList(<<>>)]))) :
        h \in ProgramHeaders }

ProgramValues == ProgramsWithoutList \cup ProgramsWithList

\* Values that are no list of programs.
OtherDocuments == { JNull, JNum(7), JStr(<<97>>), JDict([name |-> NameA]) }

HasAssetList(program) ==
    /\ IsDict(program)
    /\ "targets" \in DOMAIN program.kv
    /\ IsDict(program.kv["targets"])
    /\ "in_scope" \in DOMAIN program.kv["targets"].kv
    /\ IsList(program.kv["targets"].kv["in_scope"])

\* The assets of a program whose in_scope is a list.
AssetList(program) == program.kv["targets"].kv["in_scope"].items

\* program with asset appended to its in_scope list
WithAsset(program, asset) ==
    JDict(Put(program.kv, "targets",
              JDict([in_scope |-> JList(Append(AssetList(program), asset))])))

RECURSIVE RecordCount(_)
\* The programs and assets in a list of programs.
RecordCount(ps) ==
    IF ps = <<>> THEN 0
    ELSE 1 + (IF HasAssetList(Head(ps)) THEN Len(AssetList(Head(ps))) ELSE 0)
           + RecordCount(Tail(ps))

(***************************************************************************)
(* The values the variables of main() hold before it assigns them, and     *)
(* the variables of each part while another part is checked.               *)
(***************************************************************************)
Unset == [t |-> "unset"]
Pending == [kind |-> "pending"]
NotCalled == [called |-> FALSE]

LocalsUnset ==
    /\ current_obj = Unset
    /\ prev_obj = Unset
    /\ curr_targets = {}
    /\ curr_rewarded = {}
    /\ prev_targets = {}
    /\ prev_rewarded = {}
    /\ added = <<>>
    /\ removed = <<>>

\* lines 205-209
TotalsZero ==
    /\ any_changes = FALSE
    /\ total_new = 0
    /\ total_removed = 0
    /\ new_report_lines = <<>>
    /\ removed_report_lines = <<>>

NotEnded ==
    /\ exit_code = -1
    /\ run_error = "none"
    /\ written = {}

IdleExtract ==
    /\ data_obj = Unset
    /\ extracted = NotCalled

IdleMain ==
    /\ snapshots = [p \in PlatformIds |-> NoFile]
    /\ report_dir = {}
    /\ run = 0
    /\ pc = "idle"
    /\ platform = 0
    /\ LocalsUnset
    /\ TotalsZero
    /\ NotEnded
    /\ stored_before = snapshots
    /\ fetched = [p \in PlatformIds |-> Pending]
    /\ slack_webhook = NoWebhook
    /\ log = <<>>
    /\ slack = <<>>

(***************************************************************************)
(* SpecExtract: a document is composed record by record, and               *)
(* extract_targets_and_rewards is called on it.                            *)
(***************************************************************************)
InitExtract ==
    /\ data_obj \in OtherDocuments \cup {JList(<<>>)}
    /\ extracted = NotCalled
    /\ IdleMain

\* The feed's document gets one more program.
AddProgram ==
    /\ extracted = NotCalled
    /\ IsList(data_obj)
    /\ RecordCount(data_obj.items) < MaxRecords
    /\ \E program \in ProgramValues :
          data_obj' = JList(Append(data_obj.items, program))
    /\ UNCHANGED <<extracted, mainVars>>

\* The last program of the feed's document gets one more asset.
AddAsset ==
    /\ extracted = NotCalled
    /\ IsList(data_obj)
    /\ Len(data_obj.items) > 0
    /\ RecordCount(data_obj.items) < MaxRecords
    /\ LET n == Len(data_obj.items)
       IN  /\ HasAssetList(data_obj.items[n])
           /\ \E asset \in AssetValues :
                 data_obj' =
                     JList([data_obj.items EXCEPT
                               ![n] = WithAsset(data_obj.items[n], asset)])
    /\ UNCHANGED <<extracted, mainVars>>

CallExtract ==
    /\ extracted = NotCalled
    /\ extracted' = extract_targets_and_rewards(data_obj)
    /\ UNCHANGED <<data_obj, mainVars>>

NextExtract == AddProgram \/ AddAsset \/ CallExtract

SpecExtract == InitExtract /\ [][NextExtract]_vars

(***************************************************************************)
(* Spec: runs of main() (lines 190-296), one statement group at a time.    *)
(* A variable of the loop body that the rest of the run no longer reads is *)
(* set back to Unset when the loop moves on.                               *)
(***************************************************************************)
Init ==
    /\ IdleExtract
    /\ snapshots \in [PlatformIds -> {NoFile, CorruptFile}]
    /\ report_dir = {}
    /\ run = 1
    /\ pc = "fetch"
    /\ platform = 1
    /\ LocalsUnset
    /\ TotalsZero
    /\ NotEnded
    /\ stored_before = snapshots
    /\ fetched = [p \in PlatformIds |-> Pending]
    /\ slack_webhook \in Webhooks
    /\ log = <<LogStarting>>
    /\ slack = <<>>

\* "continue", or the end of the loop body: on to the next platform, or to
\* line 272 after the last.
NextPlatform ==
    /\ IF platform = Len(PLATFORM_FILES)
       THEN pc' = "finish" /\ platform' = platform
       ELSE pc' = "fetch" /\ platform' = platform + 1
    /\ current_obj' = Unset
    /\ prev_obj' = Unset
    /\ curr_targets' = {}
    /\ curr_rewarded' = {}
    /\ prev_targets' = {}
    /\ prev_rewarded' = {}
    /\ added' = <<>>
    /\ removed' = <<>>

\* lines 293-296: the exception leaves the loop and the try block
RunFails(exc) ==
    /\ pc' = "done"
    /\ exit_code' = 1
    /\ run_error' = exc
    /\ log' = Append(log, LogRunFailed)
    /\ UNCHANGED <<platform, localVars, written, slack>>

\* lines 216-220: http_get_json returns a document
FetchDocument ==
    /\ pc = "fetch"
    /\ \E obj \in FeedDocuments :
          /\ current_obj' = obj
          /\ fetched' = [fetched EXCEPT ![platform] = [kind |-> "ok", obj |-> obj]]
    /\ pc' = "load"
    /\ UNCHANGED <<exVars, storeVars, platform, prev_obj, curr_targets,
                   curr_rewarded, prev_targets, prev_rewarded, added, removed,
                   totalVars, endVars, stored_before, outVars>>

\* lines 216-220: http_get_json raises
FetchRaises ==
    /\ pc = "fetch"
    /\ \E exc \in FetchExceptions :
          IF exc \in CaughtByFetch
          THEN /\ fetched' = [fetched EXCEPT ![platform] = [kind |-> "skipped"]]
               /\ log' = Append(log, LogFailedToFetch(PLATFORM_FILES[platform]))
               /\ NextPlatform
               /\ UNCHANGED <<endVars, slack>>
          ELSE /\ fetched' = [fetched EXCEPT ![platform] = [kind |-> "failed"]]
               /\ RunFails(exc)
    /\ UNCHANGED <<exVars, storeVars, totalVars, stored_before>>

\* Lines 222 and 223 in each other's place: the load reads what the save
\* has written.
LoadAfterSave ==
    /\ pc = "load"
    /\ prev_obj' = load_previous_snapshot(save_snapshot(current_obj))
    /\ pc' = "save"
    /\ UNCHANGED <<exVars, storeVars, platform, current_obj, curr_targets,
                   curr_rewarded, prev_targets, prev_rewarded, added, removed,
                   totalVars, endVars, historyVars, outVars>>

\* line 222
LoadPrevious ==
    /\ pc = "load"
    /\ prev_obj' = load_previous_snapshot(snapshots[platform])
    /\ pc' = "save"
    /\ UNCHANGED <<exVars, storeVars, platform, current_obj, curr_targets,
                   curr_rewarded, prev_targets, prev_rewarded, added, removed,
                   totalVars, endVars, historyVars, outVars>>

\* Line 223 after line 227: a first run leaves without writing the snapshot.
SaveUnlessFirst ==
    /\ pc = "save"
    /\ IF prev_obj = JNull
       THEN /\ NextPlatform
            /\ UNCHANGED snapshots
       ELSE /\ snapshots' = [snapshots EXCEPT ![platform] = save_snapshot(current_obj)]
            /\ pc' = "extract"
            /\ UNCHANGED <<platform, localVars>>
    /\ UNCHANGED <<exVars, report_dir, run, slack_webhook, totalVars, endVars, historyVars, outVars>>

\* lines 223-227: the snapshot is written; a first run stops here
SaveSnapshot ==
    /\ pc = "save"
    /\ snapshots' = [snapshots EXCEPT ![platform] = save_snapshot(current_obj)]
    /\ IF prev_obj = JNull
       THEN NextPlatform
       ELSE /\ pc' = "extract"
            /\ UNCHANGED <<platform, localVars>>
    /\ UNCHANGED <<exVars, report_dir, run, slack_webhook, totalVars, endVars, historyVars, outVars>>

\* lines 229-230
ExtractBoth ==
    /\ pc = "extract"
    /\ LET curr == extract_targets_and_rewards(current_obj)
           prev == extract_targets_and_rewards(prev_obj)
       IN  /\ curr_targets' = curr.all_targets
           /\ curr_rewarded' = curr.rewarded
           /\ prev_targets' = prev.all_targets
           /\ prev_rewarded' = prev.rewarded
    /\ pc' = "diff"
    /\ UNCHANGED <<exVars, storeVars, platform, current_obj, prev_obj, added,
                   removed, totalVars, endVars, historyVars, outVars>>

\* lines 232-233
Diff ==
    /\ pc = "diff"
    /\ added' = Added(curr_targets, prev_targets)
    /\ removed' = Removed(curr_targets, prev_targets)
    /\ pc' = "accumulate"
    /\ UNCHANGED <<exVars, storeVars, platform, current_obj, prev_obj,
                   curr_targets, curr_rewarded, prev_targets, prev_rewarded,
                   totalVars, endVars, historyVars, outVars>>

\* Line 267 left out: the removed targets are not counted.
AccumulateUncounted ==
    /\ pc = "accumulate"
    /\ any_changes' = (any_changes \/ added # <<>> \/ removed # <<>>)
    /\ total_new' = total_new + Len(added)
    /\ total_removed' = total_removed
    /\ new_report_lines' =
          IF added # <<>>
          THEN new_report_lines
                  \o <<NewHeader(PLATFORM_FILES[platform], Len(added))>>
                  \o NewLines(added)
          ELSE new_report_lines
    /\ removed_report_lines' =
          IF removed # <<>>
          THEN removed_report_lines
                  \o <<RemovedHeader(PLATFORM_FILES[platform], Len(removed))>>
                  \o RemovedLines(removed)
          ELSE removed_report_lines
    /\ log' = log \o AddedLog(PLATFORM_FILES[platform], added, curr_rewarded)
                   \o RemovedLog(PLATFORM_FILES[platform], removed)
    /\ NextPlatform
    /\ UNCHANGED <<exVars, storeVars, endVars, historyVars, slack>>

\* lines 235-270: the totals and the report lines of the platform
Accumulate ==
    /\ pc = "accumulate"
    /\ any_changes' = (any_changes \/ added # <<>> \/ removed # <<>>)
    /\ total_new' = total_new + Len(added)
    /\ total_removed' = total_removed + Len(removed)
    /\ new_report_lines' =
          IF added # <<>>
          THEN new_report_lines
                  \o <<NewHeader(PLATFORM_FILES[platform], Len(added))>>
                  \o NewLines(added)
          ELSE new_report_lines
    /\ removed_report_lines' =
          IF removed # <<>>
          THEN removed_report_lines
                  \o <<RemovedHeader(PLATFORM_FILES[platform], Len(removed))>>
                  \o RemovedLines(removed)
          ELSE removed_report_lines
    /\ log' = log \o AddedLog(PLATFORM_FILES[platform], added, curr_rewarded)
                   \o RemovedLog(PLATFORM_FILES[platform], removed)
    /\ NextPlatform
    /\ UNCHANGED <<exVars, storeVars, endVars, historyVars, slack>>

\* lines 272-291: the report is written and the summary is posted when
\* there were changes
Finish ==
    /\ pc = "finish"
    /\ IF any_changes /\ (new_report_lines # <<>> \/ removed_report_lines # <<>>)
       THEN LET prefix == compute_numbered_prefix(report_dir)
                files == write_report(prefix, new_report_lines, removed_report_lines)
            IN  /\ written' = files
                /\ report_dir' = report_dir \cup { f.name : f \in files }
       ELSE UNCHANGED <<written, report_dir>>
    /\ IF any_changes
       THEN IF slack_webhook # NoWebhook
            THEN \E delivered \in BOOLEAN :
                    LET ok == send_slack(slack_webhook, delivered)
                    IN  /\ slack' = Append(slack, [text |-> Summary(total_new, total_removed),
                                                   ok |-> ok])
                        /\ log' = log \o <<LogRepositoryUpdated>>
                                      \o (IF ok THEN <<LogSlackSent>> ELSE <<>>)
                                      \o <<LogCompleted>>
            ELSE /\ slack' = slack
                 /\ log' = log \o <<LogRepositoryUpdated, LogCompleted>>
       ELSE /\ slack' = slack
            /\ log' = log \o <<LogRepositoryUpdated, LogNoChanges, LogCompleted>>
    /\ exit_code' = 0
    /\ pc' = "done"
    /\ UNCHANGED <<exVars, snapshots, run, slack_webhook, platform, localVars,
                   totalVars, run_error, historyVars>>

\* The next run of the script: main() from line 191 on.
NewRun ==
    /\ pc = "done"
    /\ run < MaxRuns
    /\ run' = run + 1
    /\ pc' = "fetch"
    /\ platform' = 1
    /\ current_obj' = Unset
    /\ prev_obj' = Unset
    /\ curr_targets' = {}
    /\ curr_rewarded' = {}
    /\ prev_targets' = {}
    /\ prev_rewarded' = {}
    /\ added' = <<>>
    /\ removed' = <<>>
    /\ any_changes' = FALSE
    /\ total_new' = 0
    /\ total_removed' = 0
    /\ new_report_lines' = <<>>
    /\ removed_report_lines' = <<>>
    /\ exit_code' = -1
    /\ run_error' = "none"
    /\ written' = {}
    /\ stored_before' = snapshots
    /\ fetched' = [p \in PlatformIds |-> Pending]
    /\ log' = <<LogStarting>>
    /\ slack' = <<>>
    /\ UNCHANGED <<exVars, snapshots, report_dir, slack_webhook>>

Next ==
    \/ FetchDocument
    \/ FetchRaises
    \/ LoadPrevious
    \/ SaveSnapshot
    \/ ExtractBoth
    \/ Diff
    \/ Accumulate
    \/ Finish
    \/ NewRun

Spec == Init /\ [][Next]_vars

(***************************************************************************)
(* SpecDiff: the diff of lines 232-233 on any two sets of target strings.  *)
(***************************************************************************)
\* Strings in an order sorted() has to find: a prefix, capitals, small
\* letters, a space.
SomeTargets ==
    << <<65, 32, 97>>, <<65>>, <<97>>, <<65, 32, 98>>, <<66>>, <<65, 65>>, <<32>> >>

TargetStrings ==
    { SomeTargets[k] : k \in 1..(IF MaxTargets < Len(SomeTargets)
                                 THEN MaxTargets ELSE Len(SomeTargets)) }

InitDiff ==
    /\ IdleExtract
    /\ snapshots = [p \in PlatformIds |-> NoFile]
    /\ report_dir = {}
    /\ run = 0
    /\ pc = "diff"
    /\ platform = 1
    /\ current_obj = Unset
    /\ prev_obj = Unset
    /\ curr_targets \in SUBSET TargetStrings
    /\ prev_targets \in SUBSET TargetStrings
    /\ curr_rewarded = {}
    /\ prev_rewarded = {}
    /\ added = <<>>
    /\ removed = <<>>
    /\ TotalsZero
    /\ NotEnded
    /\ stored_before = snapshots
    /\ fetched = [p \in PlatformIds |-> Pending]
    /\ slack_webhook = NoWebhook
    /\ log = <<>>
    /\ slack = <<>>

NextDiff == Diff

SpecDiff == InitDiff /\ [][NextDiff]_vars

(***************************************************************************)
(* Vocabulary of the claims about the extraction.                          *)
(***************************************************************************)
Called == extracted # NotCalled

\* The places <<i, j>> of the assets held in lists of the document.
AssetPlaces ==
    IF ~IsList(data_obj) THEN {}
    ELSE { pl \in (1..Len(data_obj.items)) \X (1..MaxRecords) :
             /\ HasAssetList(data_obj.items[pl[1]])
             /\ pl[2] <= Len(AssetList(data_obj.items[pl[1]])) }

ProgramAt(pl) == data_obj.items[pl[1]]
AssetAt(pl) == AssetList(data_obj.items[pl[1]])[pl[2]]

\* The places of the assets mark() was called for.
MarkedPlaces ==
    { <<extracted.calls[n].program, extracted.calls[n].asset>> :
        n \in 1..Len(extracted.calls) }

\* A flag that is present and true.
FlagTrue(d, key) == key \in DOMAIN d.kv /\ d.kv[key] = JBool(TRUE)

\* An asset is a record whose identifier and type, when present, are strings.
WellFormedAsset(asset) ==
    /\ IsDict(asset)
    /\ "asset_identifier" \in DOMAIN asset.kv => IsStr(asset.kv["asset_identifier"])
    /\ "asset_type" \in DOMAIN asset.kv => IsStr(asset.kv["asset_type"])

\* A well-formed asset whose identifier is neither empty nor only whitespace.
HasIdentifier(asset) ==
    /\ WellFormedAsset(asset)
    /\ "asset_identifier" \in DOMAIN asset.kv
    /\ Strip(asset.kv["asset_identifier"].s) # <<>>

\* A program is a record with a list of assets and string names.
WellFormedHeader(program) ==
    /\ IsDict(program)
    /\ HasAssetList(program)
    /\ "name" \in DOMAIN program.kv => IsStr(program.kv["name"])
    /\ "handle" \in DOMAIN program.kv => IsStr(program.kv["handle"])

\* A program all of whose records are well-formed.
WellFormedProgram(program) ==
    /\ WellFormedHeader(program)
    /\ \A j \in 1..Len(AssetList(program)) :
          WellFormedAsset(AssetList(program)[j])

\* The document cut before the asset at place pl.
DocumentBefore(pl) ==
    LET program == ProgramAt(pl)
        cut == JDict(Put(program.kv, "targets",
                   JDict([in_scope |->
                       JList(SubSeq(AssetList(program), 1, pl[2] - 1))])))
    IN  JList(Append(SubSeq(data_obj.items, 1, pl[1] - 1), cut))

\* The extraction gets as far as the asset at place pl: no record before it
\* makes the call stop.
Reaches(pl) == extract_targets_and_rewards(DocumentBefore(pl)).warning = "none"

\* "{name} ({type}) - {identifier}", trimmed, for a well-formed asset
TargetString(name, asset) ==
    Strip(name \o <<32, 40>>
          \o (IF "asset_type" \in DOMAIN asset.kv
              THEN Lower(asset.kv["asset_type"].s) ELSE StrOther)
          \o <<41, 32, 45, 32>>
          \o Strip(asset.kv["asset_identifier"].s))

\* The program name as the claim has it: the name, "Unknown" without one.
ClaimedName(program) ==
    IF "name" \in DOMAIN program.kv /\ program.kv["name"].s # <<>>
    THEN program.kv["name"].s
    ELSE StrUnknown

\* The program name as the code has it: the name, else the handle, else
\* "Unknown".
NameOrHandle(program) ==
    IF "name" \in DOMAIN program.kv /\ program.kv["name"].s # <<>>
    THEN program.kv["name"].s
    ELSE IF "handle" \in DOMAIN program.kv
         THEN program.kv["handle"].s
         ELSE StrUnknown

\* The asset at place pl is classified rewarded by its flags.
ClassifiedRewarded(pl) ==
    \/ FlagTrue(AssetAt(pl), "eligible_for_bounty")
    \/ FlagTrue(ProgramAt(pl), "offers_bounties")

\* The set key of the n-th call of mark().
KeyOfCall(n) == Strip(extracted.calls[n].target)
PlaceOfCall(n) == <<extracted.calls[n].program, extracted.calls[n].asset>>

C8_NeverRaises ==
    Called =>
      /\ extracted.exc = "none"
      /\ (~IsList(data_obj)
             \/ \A i \in 1..Len(data_obj.items) : ~IsDict(data_obj.items[i]))
         => (extracted.all_targets = {} /\ extracted.rewarded = {})

\* A call in which a record raised after a target had been collected, and
\* which returned all the same.
C8_Witness ==
    /\ Called
    /\ extracted.warning # "none"
    /\ extracted.all_targets # {}
    /\ extracted.exc = "none"

(***************************************************************************)
(* C9.  A malformed record is skipped.                                     *)
(***************************************************************************)
\* C9 as claimed: a program entry that is no record, a program whose
\* in_scope is missing or malformed, and an asset with a malformed field
\* contribute no target, while every asset with an identifier of every
\* program whose records are all well-formed is in the extracted set.
C9_AsClaimed ==
    Called =>
      /\ \A pl \in MarkedPlaces : WellFormedAsset(AssetAt(pl))
      /\ \A pl \in AssetPlaces :
            (WellFormedProgram(ProgramAt(pl)) /\ HasIdentifier(AssetAt(pl)))
            => TargetString(NameOrHandle(ProgramAt(pl)), AssetAt(pl))
                  \in extracted.all_targets

(***************************************************************************)
(* SpecAccumulate: lines 235-291 for one platform, on a diff of any size.  *)
(* The run is at line 235 for some platform, with the differences that     *)
(* lines 229-233 found and what the platforms before it accumulated; the   *)
(* documents themselves are left out.                                      *)
(***************************************************************************)
\* "T00" to "T99", in ascending order
ManyTargets == [i \in 1..100 |-> <<84, 48 + ((i - 1) \div 10), 48 + ((i - 1) % 10)>>]

\* "R1", "R2"
GoneTargets == <<<<82, 49>>, <<82, 50>>>>

\* The accumulators when an earlier platform had one added and one removed
\* target.
EarlierBlock ==
    [any_changes |-> TRUE, total_new |-> 1, total_removed |-> 1,
     new_report_lines |->
        <<NewHeader(PLATFORM_FILES[1], 1)>> \o NewLines(<<<<65>>>>),
     removed_report_lines |->
        <<RemovedHeader(PLATFORM_FILES[1], 1)>> \o RemovedLines(<<<<66>>>>)]

\* lines 205-209
NoBlock ==
    [any_changes |-> FALSE, total_new |-> 0, total_removed |-> 0,
     new_report_lines |-> <<>>, removed_report_lines |-> <<>>]

InitAccumulate ==
    /\ IdleExtract
    /\ snapshots = [p \in PlatformIds |-> NoFile]
    /\ report_dir = {}
    /\ run = 1
    /\ slack_webhook \in Webhooks
    /\ pc = "accumulate"
    /\ platform \in PlatformIds
    /\ current_obj = Unset
    /\ prev_obj = Unset
    /\ \E k \in 0..MaxAdded :
          /\ added = Take(ManyTargets, k)
          /\ \E r \in {0, 1, k} \cap 0..k :
                curr_rewarded = { added[i] : i \in 1..r }
    /\ \E k \in 0..Len(GoneTargets) : removed = Take(GoneTargets, k)
    /\ curr_targets = { added[i] : i \in 1..Len(added) }
    /\ prev_targets = { removed[i] : i \in 1..Len(removed) }
    /\ prev_rewarded = {}
    /\ \E acc \in (IF platform = 1 THEN {NoBlock} ELSE {NoBlock, EarlierBlock}) :
          /\ any_changes = acc.any_changes
          /\ total_new = acc.total_new
          /\ total_removed = acc.total_removed
          /\ new_report_lines = acc.new_report_lines
          /\ removed_report_lines = acc.removed_report_lines
    /\ NotEnded
    /\ stored_before = snapshots
    /\ fetched = [p \in PlatformIds |-> Pending]
    /\ log = <<LogStarting>>
    /\ slack = <<>>

NextAccumulate == Accumulate \/ Finish

SpecAccumulate == InitAccumulate /\ [][NextAccumulate]_vars

(***************************************************************************)
(* SpecReports: the report files over successive runs.  The loop of lines  *)
(* 212-270 is reduced to its outcome, the accumulators it leaves at line   *)
(* 272; the output directory holds what earlier runs and the user left in  *)
(* it.                                                                     *)
(***************************************************************************)
\* nothing yet
DirEmpty == {}

\* the snapshots and the log directory
DirSnapshots ==
      \* "hackerone_data.json"
    { <<104, 97, 99, 107, 101, 114, 111, 110, 101, 95, 100, 97, 116, 97,
        46, 106, 115, 111, 110>>,
      \* "bugcrowd_data.json"
      <<98, 117, 103, 99, 114, 111, 119, 100, 95, 100, 97, 116, 97, 46,
        106, 115, 111, 110>>,
      \* "logs"
      <<108, 111, 103, 115>> }

\* one report
DirOne ==
      \* "0001_new_targets.txt"
    { <<48, 48, 48, 49, 95, 110, 101, 119, 95, 116, 97, 114, 103, 101,
        116, 115, 46, 116, 120, 116>>,
      \* "0001_removed_targets.txt"
      <<48, 48, 48, 49, 95, 114, 101, 109, 111, 118, 101, 100, 95, 116,
        97, 114, 103, 101, 116, 115, 46, 116, 120, 116>> }

\* the reports 0001 to 0007
DirSeven ==
      \* "0001_new_targets.txt"
    { <<48, 48, 48, 49, 95, 110, 101, 119, 95, 116, 97, 114, 103, 101,
        116, 115, 46, 116, 120, 116>>,
      \* "0001_removed_targets.txt"
      <<48, 48, 48, 49, 95, 114, 101, 109, 111, 118, 101, 100, 95, 116,
        97, 114, 103, 101, 116, 115, 46, 116, 120, 116>>,
      \* "0002_new_targets.txt"
      <<48, 48, 48, 50, 95, 110, 101, 119, 95, 116, 97, 114, 103, 101,
        116, 115, 46, 116, 120, 116>>,
      \* "0002_removed_targets.txt"
      <<48, 48, 48, 50, 95, 114, 101, 109, 111, 118, 101, 100, 95, 116,
        97, 114, 103, 101, 116, 115, 46, 116, 120, 116>>,
      \* "0003_new_targets.txt"
      <<48, 48, 48, 51, 95, 110, 101, 119, 95, 116, 97, 114, 103, 101,
        116, 115, 46, 116, 120, 116>>,
      \* "0003_removed_targets.txt"
      <<48, 48, 48, 51, 95, 114, 101, 109, 111, 118, 101, 100, 95, 116,
        97, 114, 103, 101, 116, 115, 46, 116, 120, 116>>,
      \* "0004_new_targets.txt"
      <<48, 48, 48, 52, 95, 110, 101, 119, 95, 116, 97, 114, 103, 101,
        116, 115, 46, 116, 120, 116>>,
      \* "0004_removed_targets.txt"
      <<48, 48, 48, 52, 95, 114, 101, 109, 111, 118, 101, 100, 95, 116,
        97, 114, 103, 101, 116, 115, 46, 116, 120, 116>>,
      \* "0005_new_targets.txt"
      <<48, 48, 48, 53, 95, 110, 101, 119, 95, 116, 97, 114, 103, 101,
        116, 115, 46, 116, 120, 116>>,
      \* "0005_removed_targets.txt"
      <<48, 48, 48, 53, 95, 114, 101, 109, 111, 118, 101, 100, 95, 116,
        97, 114, 103, 101, 116, 115, 46, 116, 120, 116>>,
      \* "0006_new_targets.txt"
      <<48, 48, 48, 54, 95, 110, 101, 119, 95, 116, 97, 114, 103, 101,
        116, 115, 46, 116, 120, 116>>,
      \* "0006_removed_targets.txt"
      <<48, 48, 48, 54, 95, 114, 101, 109, 111, 118, 101, 100, 95, 116,
        97, 114, 103, 101, 116, 115, 46, 116, 120, 116>>,
      \* "0007_new_targets.txt"
      <<48, 48, 48, 55, 95, 110, 101, 119, 95, 116, 97, 114, 103, 101,
        116, 115, 46, 116, 120, 116>>,
      \* "0007_removed_targets.txt"
      <<48, 48, 48, 55, 95, 114, 101, 109, 111, 118, 101, 100, 95, 116,
        97, 114, 103, 101, 116, 115, 46, 116, 120, 116>> }

\* the report 9998, the earlier ones cleared away
DirNearLast ==
      \* "9998_new_targets.txt"
    { <<57, 57, 57, 56, 95, 110, 101, 119, 95, 116, 97, 114, 103, 101,
        116, 115, 46, 116, 120, 116>>,
      \* "9998_removed_targets.txt"
      <<57, 57, 57, 56, 95, 114, 101, 109, 111, 118, 101, 100, 95, 116,
        97, 114, 103, 101, 116, 115, 46, 116, 120, 116>> }

\* the report 9999, the earlier ones cleared away
DirLast ==
      \* "9999_new_targets.txt"
    { <<57, 57, 57, 57, 95, 110, 101, 119, 95, 116, 97, 114, 103, 101,
        116, 115, 46, 116, 120, 116>>,
      \* "9999_removed_targets.txt"
      <<57, 57, 57, 57, 95, 114, 101, 109, 111, 118, 101, 100, 95, 116,
        97, 114, 103, 101, 116, 115, 46, 116, 120, 116>> }

\* a numbered text file that is no report
DirBare ==
      \* "0012.txt"
    { <<48, 48, 49, 50, 46, 116, 120, 116>> }

\* a text file with five digits in front
DirLong ==
      \* "00123_notes.txt"
    { <<48, 48, 49, 50, 51, 95, 110, 111, 116, 101, 115, 46, 116, 120,
        116>> }

\* a name of superscript digits, which int() does not read
DirSuperscript ==
      \* "U+00B2 U+00B2 U+00B2 U+00B2 _notes.txt"
    { <<178, 178, 178, 178, 95, 110, 111, 116, 101, 115, 46, 116, 120,
        116>> }

\* a name of Arabic-Indic digits, which int() reads as 7
DirArabicIndic ==
      \* "U+0660 U+0660 U+0660 U+0667 _notes.txt"
    { <<1632, 1632, 1632, 1639, 95, 110, 111, 116, 101, 115, 46, 116,
        120, 116>> }

\* a numbered file that is no text file
DirOtherSuffix ==
      \* "0003_new_targets.log"
    { <<48, 48, 48, 51, 95, 110, 101, 119, 95, 116, 97, 114, 103, 101,
        116, 115, 46, 108, 111, 103>> }

\* a text file without a number
DirNotes ==
      \* "notes.txt"
    { <<110, 111, 116, 101, 115, 46, 116, 120, 116>> }

\* a report, a numbered text file and an unreadable number
DirMixed ==
      \* "0099_new_targets.txt"
    { <<48, 48, 57, 57, 95, 110, 101, 119, 95, 116, 97, 114, 103, 101,
        116, 115, 46, 116, 120, 116>>,
      \* "0099_removed_targets.txt"
      <<48, 48, 57, 57, 95, 114, 101, 109, 111, 118, 101, 100, 95, 116,
        97, 114, 103, 101, 116, 115, 46, 116, 120, 116>>,
      \* "0100.txt"
      <<48, 49, 48, 48, 46, 116, 120, 116>>,
      \* "U+00B9 U+00B9 U+00B9 U+00B9 .txt"
      <<185, 185, 185, 185, 46, 116, 120, 116>> }

InitialDirs ==
    { DirEmpty, DirSnapshots, DirOne, DirSeven, DirNearLast, DirLast, DirBare,
      DirLong, DirSuperscript, DirArabicIndic, DirOtherSuffix, DirNotes, DirMixed }

InitReports ==
    /\ IdleExtract
    /\ snapshots = [p \in PlatformIds |-> NoFile]
    /\ report_dir \in InitialDirs
    /\ run = 1
    /\ slack_webhook = NoWebhook
    /\ pc = "fetch"
    /\ platform = 1
    /\ LocalsUnset
    /\ TotalsZero
    /\ NotEnded
    /\ stored_before = snapshots
    /\ fetched = [p \in PlatformIds |-> Pending]
    /\ log = <<LogStarting>>
    /\ slack = <<>>

\* lines 212-270, by their outcome: the loop ends with no change, or with
\* the lines of one platform's change
LoopOutcome ==
    /\ pc = "fetch"
    /\ platform = 1
    /\ \E acc \in {NoBlock, EarlierBlock} :
          /\ any_changes' = acc.any_changes
          /\ total_new' = acc.total_new
          /\ total_removed' = acc.total_removed
          /\ new_report_lines' = acc.new_report_lines
          /\ removed_report_lines' = acc.removed_report_lines
    /\ pc' = "finish"
    /\ platform' = Len(PLATFORM_FILES)
    /\ UNCHANGED <<exVars, storeVars, localVars, endVars, historyVars, outVars>>

NextReports == LoopOutcome \/ Finish \/ NewRun

SpecReports == InitReports /\ [][NextReports]_vars

(***************************************************************************)
(* Vocabulary of the claims about a run.                                   *)
(***************************************************************************)
\* The run found a snapshot of platform p that holds a document.
HadPrevious(p) == stored_before[p].state = "json" /\ stored_before[p].obj # JNull

\* The loop has left the body of platform p, which it did not fail in.
Passed(p) ==
    /\ fetched[p].kind \in {"ok", "skipped"}
    /\ (platform > p \/ pc \in {"finish", "done"})

\* The snapshot of platform p has been written in this run.
Persisted(p) ==
    /\ fetched[p].kind = "ok"
    /\ ~(platform = p /\ pc \in {"load", "save"})

\* The targets of each document of the feed.
FeedTargets == [obj \in FeedDocuments |-> extract_targets_and_rewards(obj).all_targets]

\* The targets of a document.
TargetsOf(obj) ==
    IF obj \in FeedDocuments THEN FeedTargets[obj]
    ELSE extract_targets_and_rewards(obj).all_targets

\* The targets the fetched document of platform p adds to, and lacks of, the
\* snapshot the run found.
AddedOf(p) ==
    IF fetched[p].kind = "ok" /\ HadPrevious(p)
    THEN TargetsOf(fetched[p].obj) \ TargetsOf(stored_before[p].obj)
    ELSE {}
RemovedOf(p) ==
    IF fetched[p].kind = "ok" /\ HadPrevious(p)
    THEN TargetsOf(stored_before[p].obj) \ TargetsOf(fetched[p].obj)
    ELSE {}

Range(seq) == { seq[k] : k \in 1..Len(seq) }

StartsWith(line, prefix) ==
    Len(line) >= Len(prefix) /\ SubSeq(line, 1, Len(prefix)) = prefix

\* "[P]", which starts the header lines of platform p
Tag(p) == <<91>> \o PLATFORM_FILES[p] \o <<93>>

\* No accumulated report line is a header of platform p.
NoLinesOf(p) ==
    \A line \in Range(new_report_lines) \cup Range(removed_report_lines) :
       ~StartsWith(line, Tag(p))

\* The lines of the files the run wrote.
WrittenLines == UNION { Range(f.lines) : f \in written }

\* Every change of platform p is a line of a report file the run wrote.
Reported(p) ==
    /\ \A t \in AddedOf(p) : (<<32, 43, 32>> \o t) \in WrittenLines
    /\ \A t \in RemovedOf(p) : (<<32, 45, 32>> \o t) \in WrittenLines

RECURSIVE SumOver(_, _)
SumOver(S, f) ==
    IF S = {} THEN 0
    ELSE LET x == CHOOSE y \in S : TRUE IN f[x] + SumOver(S \ {x}, f)

RECURSIVE LexBefore(_, _)
\* a comes before b in lexicographic order
LexBefore(a, b) ==
    IF a = <<>> THEN b # <<>>
    ELSE IF b = <<>> THEN FALSE
    ELSE \/ Head(a) < Head(b)
         \/ Head(a) = Head(b) /\ LexBefore(Tail(a), Tail(b))

Ascending(seq) == \A j, k \in 1..Len(seq) : j < k => LexBefore(seq[j], seq[k])

(***************************************************************************)
(* C1.  The diff.                                                          *)
(***************************************************************************)
\* C1: added is current minus previous and removed is previous minus
\* current: the two are disjoint, each with the unchanged targets gives back
\* its side, and both lists are duplicate-free and ascending.
C1_Diff ==
    pc = "accumulate" =>
      LET unchanged == curr_targets \cap prev_targets
      IN  /\ Range(added) = curr_targets \ prev_targets
          /\ Range(removed) = prev_targets \ curr_targets
          /\ Range(added) \cap Range(removed) = {}
          /\ Range(added) \cup unchanged = curr_targets
          /\ Range(removed) \cup unchanged = prev_targets
          /\ Len(added) = Cardinality(Range(added))
          /\ Len(removed) = Cardinality(Range(removed))
          /\ Ascending(added)
          /\ Ascending(removed)

\* A diff with two added targets, a removed one and an unchanged one.
C1_Witness ==
    /\ pc = "accumulate"
    /\ Len(added) >= 2
    /\ Len(removed) >= 1
    /\ curr_targets \cap prev_targets # {}

(***************************************************************************)
(* C4.  Platforms are independent.                                         *)
(***************************************************************************)
\* C4 as claimed: when a run has ended, every platform has been processed
\* and every change of a platform the loop went through is in the report,
\* whatever failed for another platform.
C4_AsClaimed ==
    pc = "done" =>
      /\ \A p \in PlatformIds : Passed(p) \/ fetched[p].kind = "failed"
      /\ \A p \in PlatformIds : Passed(p) => Reported(p)

(***************************************************************************)
(* C5.  A failed fetch skips the platform.                                 *)
(***************************************************************************)
\* The fetch of platform p failed on the HTTP status, the network or a
\* timeout.
FetchFailed(p) ==
    \/ fetched[p].kind = "skipped"
    \/ fetched[p].kind = "failed" /\ run_error \in NetworkExceptions

\* C5 as claimed: when the fetch of a platform fails, its snapshot is left
\* as it was, it adds no report line, every other platform is still
\* processed, and the run exits with status 0.
C5_AsClaimed ==
    pc = "done" =>
      \A p \in PlatformIds :
         FetchFailed(p) =>
            /\ snapshots[p] = stored_before[p]
            /\ NoLinesOf(p)
            /\ \A q \in PlatformIds \ {p} : fetched[q].kind # "pending"
            /\ exit_code = 0

(***************************************************************************)
(* C6.  A first run only seeds the snapshot.                               *)
(***************************************************************************)
\* C6: when the fetch succeeds and there is no previous snapshot (no file,
\* or a file that does not parse), the run makes no extraction and no diff
\* for the platform, adds no report line and no count for it, and stores
\* the fetched document, which is what the next load of the platform
\* returns.
C6_SeedOnly ==
    /\ pc \in {"extract", "diff", "accumulate"} => HadPrevious(platform)
    /\ \A p \in PlatformIds :
          (fetched[p].kind = "ok" /\ ~HadPrevious(p) /\ Passed(p))
          => /\ snapshots[p] = JsonFile(fetched[p].obj)
             /\ NoLinesOf(p)
    /\ pc \in {"finish", "done"} =>
          /\ total_new =
                SumOver({ p \in PlatformIds : Passed(p) /\ HadPrevious(p) },
                        [p \in PlatformIds |-> Cardinality(AddedOf(p))])
          /\ total_removed =
                SumOver({ p \in PlatformIds : Passed(p) /\ HadPrevious(p) },
                        [p \in PlatformIds |-> Cardinality(RemovedOf(p))])
    /\ (pc = "save" /\ stored_before[platform].state = "json")
          => prev_obj = stored_before[platform].obj
    /\ (pc = "fetch" /\ platform = 1) => stored_before = snapshots

\* The second run has loaded, for a platform, the document the first run
\* stored without comparing it.
C6_Witness ==
    /\ run = 2
    /\ pc = "save"
    /\ prev_obj = DocOne
    /\ stored_before[platform] = JsonFile(DocOne)

(***************************************************************************)
(* C7.  Load, then persist, then diff.                                     *)
(***************************************************************************)
\* C7: the previous snapshot is read before the file is overwritten; once
\* written, the file holds the fetched document for the rest of the run;
\* and the diff compares the fetched document with what the file held
\* before the run.
C7_LoadPersistDiff ==
    /\ pc = "save" =>
          /\ snapshots[platform] = stored_before[platform]
          /\ prev_obj = (IF stored_before[platform].state = "json"
                         THEN stored_before[platform].obj ELSE JNull)
    /\ \A p \in PlatformIds :
          Persisted(p) => snapshots[p] = JsonFile(fetched[p].obj)
    /\ pc \in {"diff", "accumulate"} =>
          /\ curr_targets = TargetsOf(fetched[platform].obj)
          /\ prev_targets = TargetsOf(stored_before[platform].obj)
    /\ pc = "accumulate" =>
          /\ Range(added) = AddedOf(platform)
          /\ Range(removed) = RemovedOf(platform)

\* A diff that found an added target, the file already holding the fetched
\* document, and the run ended by a later platform's failure with the file
\* still holding it.
C7_Witness ==
    /\ pc = "done"
    /\ exit_code = 1
    /\ \E p \in PlatformIds :
          /\ Passed(p)
          /\ AddedOf(p) # {}
          /\ snapshots[p] = JsonFile(fetched[p].obj)
          /\ snapshots[p] # stored_before[p]

(***************************************************************************)
(* C10.  The report files are written when there was a change.             *)
(***************************************************************************)
\* C10 as claimed: a run writes the two report files, under one prefix, if
\* and only if a target was added or removed on some platform in that run.
C10_AsClaimed ==
    pc = "done" =>
      /\ written # {} <=>
            \E p \in PlatformIds : Passed(p) /\ AddedOf(p) \cup RemovedOf(p) # {}
      /\ written # {} =>
            \E prefix \in { SubSeq(f.name, 1, 4) : f \in written } :
               { f.name : f \in written } =
                  { prefix \o StrNewTargets, prefix \o StrRemovedTargets }

(***************************************************************************)
(* C11.  The lines of the report.                                          *)
(***************************************************************************)
\* "[P] +k new" and the k lines " + target", or nothing when k is 0
ClaimedNewBlock(p, targets) ==
    IF targets = <<>> THEN <<>>
    ELSE <<Tag(p) \o <<32, 43>> \o Decimal(Len(targets)) \o <<32, 110, 101, 119>>>>
            \o [k \in 1..Len(targets) |-> <<32, 43, 32>> \o targets[k]]

\* "[P] -k removed" and the k lines " - target", or nothing when k is 0
ClaimedRemovedBlock(p, targets) ==
    IF targets = <<>> THEN <<>>
    ELSE <<Tag(p) \o <<32, 45>> \o Decimal(Len(targets))
              \o <<32, 114, 101, 109, 111, 118, 101, 100>>>>
            \o [k \in 1..Len(targets) |-> <<32, 45, 32>> \o targets[k]]

\* The lines of the file of the set files whose name ends with suffix.
LinesOfFile(files, suffix) ==
    LET f == CHOOSE g \in files : EndsWith(g.name, suffix) IN f.lines

\* C11: a platform with k >= 1 added targets puts "[P] +k new" and then its
\* k targets, in the ascending order of the diff, each as " + target", after
\* the lines of the platforms before it, and a platform without added
\* targets puts nothing; the same holds for the removed targets with
\* "[P] -k removed" and " - target"; the two files hold these lines.
C11_ReportBlocks ==
    [][ /\ pc = "accumulate" =>
              /\ Ascending(added)
              /\ Ascending(removed)
              /\ new_report_lines' =
                    new_report_lines \o ClaimedNewBlock(platform, added)
              /\ removed_report_lines' =
                    removed_report_lines \o ClaimedRemovedBlock(platform, removed)
        /\ (pc = "finish" /\ written' # {}) =>
              /\ Cardinality(written') = 2
              /\ LinesOfFile(written', StrNewTargets) = new_report_lines
              /\ LinesOfFile(written', StrRemovedTargets) = removed_report_lines
      ]_vars

\* A report with the block of an earlier platform and then the block of
\* the last platform, which has three added targets or more and two removed.
C11_Witness ==
    /\ pc = "done"
    /\ written # {}
    /\ Len(LinesOfFile(written, StrNewTargets)) >= 6
    /\ Len(LinesOfFile(written, StrRemovedTargets)) = 5
    /\ StartsWith(LinesOfFile(written, StrNewTargets)[1], Tag(1))
    /\ StartsWith(LinesOfFile(written, StrNewTargets)[3], Tag(4))

(***************************************************************************)
(* C12.  The non-rewarded added targets in the log.                        *)
(***************************************************************************)
\* The lines of a log that show a non-rewarded target or sum up the rest.
NonRewardedLines(lines) ==
    SelectSeq(lines, LAMBDA e : e.fmt \in {LogNotRewarded(<<>>).fmt, LogMore(0).fmt})

\* C12 as claimed: the log shows every non-rewarded added target when there
\* are 3 or fewer, and otherwise the first 2 and one line "... and N more
\* non-rewarded targets" with N the number of those not shown.
C12_AsClaimed ==
    [][ pc = "accumulate" =>
          LET without == SelectSeq(added, LAMBDA t : t \notin curr_rewarded)
              n == Len(without)
              logged == SubSeq(log', Len(log) + 1, Len(log'))
          IN  NonRewardedLines(logged) =
                 IF n <= 3
                 THEN [k \in 1..n |-> LogNotRewarded(without[k])]
                 ELSE <<LogNotRewarded(without[1]), LogNotRewarded(without[2]),
                        LogMore(n - 2)>>
      ]_vars

(***************************************************************************)
(* C13.  The prefix of the next report.                                    *)
(***************************************************************************)
AsciiDigits(str) == \A k \in 1..Len(str) : str[k] \in 48..57

\* What comes before "_new_targets.txt" in the names of the files written.
PrefixWritten(files) ==
    LET f == CHOOSE g \in files : EndsWith(g.name, StrNewTargets)
    IN  SubSeq(f.name, 1, Len(f.name) - Len(StrNewTargets))

Greatest(numbers) == CHOOSE n \in numbers : \A m \in numbers : m <= n

\* A name of the form NNNN_*.txt
NumberedReportName(f) ==
    /\ Len(f) >= 9
    /\ AsciiDigits(SubSeq(f, 1, 4))
    /\ f[5] = 95
    /\ EndsWith(f, StrTxt)

\* C13 as claimed: the prefix is "0001" when the directory holds no name of
\* the form NNNN_*.txt, and otherwise the 4-digit decimal of the greatest
\* such NNNN plus one.
C13_AsClaimed ==
    [][ (pc = "finish" /\ written' # {}) =>
          LET prefix == PrefixWritten(written')
              numbers == { IntOf(SubSeq(f, 1, 4)) :
                              f \in { g \in report_dir : NumberedReportName(g) } }
          IN  /\ Len(prefix) = 4
              /\ AsciiDigits(prefix)
              /\ IntOf(prefix) = IF numbers = {} THEN 1 ELSE Greatest(numbers) + 1
      ]_vars

\* C13: the prefix is "0001" when the directory holds no name that ends in
\* ".txt" and starts with four digit characters; otherwise it is the
\* decimal, zero-padded to four digits or longer when the number needs
\* more, of one plus the greatest number that the first four characters of
\* such a name spell, taking 0 when none of them spells a number.
C13_Prefix ==
    [][ (pc = "finish" /\ written' # {}) =>
          LET prefix == PrefixWritten(written')
              numbered == { g \in report_dir :
                               /\ EndsWith(g, StrTxt)
                               /\ \A k \in 1..4 : g[k] \in DigitChars }
              numbers == { IntOf(SubSeq(g, 1, 4)) :
                              g \in { h \in numbered :
                                         \A k \in 1..4 : h[k] \in DecimalChars } }
                         \cup {0}
          IN  /\ Len(prefix) >= 4
              /\ Len(prefix) > 4 => prefix[1] # 48
              /\ AsciiDigits(prefix)
              /\ IntOf(prefix) = IF numbered = {} THEN 1 ELSE Greatest(numbers) + 1
      ]_vars

\* With the reports 0001 to 0007 in the directory, a run has written 0008.
C13_Witness ==
    /\ pc = "done"
    /\ DirSeven \subseteq report_dir
    /\ written # {}
    /\ PrefixWritten(written) = <<48, 48, 48, 56>>

(***************************************************************************)
(* C14.  A report is never overwritten.                                    *)
(***************************************************************************)
\* The name of a report file of an earlier run.
IsReportName(f) ==
    \/ EndsWith(f, StrNewTargets) /\ IsDecimal(SubSeq(f, 1, Len(f) - Len(StrNewTargets)))
    \/ /\ EndsWith(f, StrRemovedTargets)
       /\ IsDecimal(SubSeq(f, 1, Len(f) - Len(StrRemovedTargets)))

NumberOfReport(f) ==
    IF EndsWith(f, StrNewTargets)
    THEN IntOf(SubSeq(f, 1, Len(f) - Len(StrNewTargets)))
    ELSE IntOf(SubSeq(f, 1, Len(f) - Len(StrRemovedTargets)))

\* C14 as claimed, less the width of the prefix: a run that writes a report
\* writes no name that is in the directory already, and its prefix is a
\* greater number than the prefix of every report in the directory.
C14_AsClaimed ==
    [][ (pc = "finish" /\ written' # {}) =>
          /\ \A f \in written' : f.name \notin report_dir
          /\ \A g \in report_dir :
                IsReportName(g) => NumberOfReport(g) < IntOf(PrefixWritten(written'))
      ]_vars

(***************************************************************************)
(* C15.  The webhook message.                                              *)
(***************************************************************************)
\* A change was found on a platform the loop went through.
ChangeDetected ==
    \E p \in PlatformIds : Passed(p) /\ AddedOf(p) \cup RemovedOf(p) # {}

\* The numbers of targets added and removed on the platforms the loop went
\* through.
AddedInRun ==
    SumOver({ p \in PlatformIds : Passed(p) },
            [p \in PlatformIds |-> Cardinality(AddedOf(p))])
RemovedInRun ==
    SumOver({ p \in PlatformIds : Passed(p) },
            [p \in PlatformIds |-> Cardinality(RemovedOf(p))])

\* C15 as claimed: a run that has ended has posted one message when a
\* webhook is configured and a change was detected, and none otherwise; the
\* message has the total of added targets and, only when it is not zero,
\* the total of removed targets; and a run that posted ends with status 0,
\* delivered or not.
C15_AsClaimed ==
    pc = "done" =>
      /\ Len(slack) = IF slack_webhook # NoWebhook /\ ChangeDetected THEN 1 ELSE 0
      /\ \A k \in 1..Len(slack) :
            /\ slack[k].text =
                  StrTotalNew \o Decimal(AddedInRun)
                     \o (IF RemovedInRun = 0 THEN <<>>
                         ELSE StrTotalRemoved \o Decimal(RemovedInRun))
            /\ exit_code = 0

C17_AsClaimed ==
    pc = "done" =>
      \A p \in PlatformIds :
         (Persisted(p) /\ HadPrevious(p)) => Reported(p)

(***************************************************************************)
(* C18.  The accumulators.                                                 *)
(***************************************************************************)
\* The number of the lines that start with sign.
CountLines(lines, sign) ==
    Cardinality({ k \in 1..Len(lines) : StartsWith(lines[k], sign) })

====
